---- MODULE Spec2Model ----
(***************************************************************************)
(* Model of src/AIstreamlit.py (Gamers Compass): the time-boxed cache      *)
(* (CacheManager), the snippet scraper, the prompt builder, the content    *)
(* fetch get_game_content_async and one run of main.                       *)
(*                                                                         *)
(* Text.  A Python str is modelled as a sequence of chunks; a chunk is a   *)
(* literal piece of an f-string or an atomic input text.  An f-string is   *)
(* the concatenation (\o) of its literal chunks and interpolated values,   *)
(* "s contains t" is "t is a contiguous subsequence of s", and str.lower   *)
(* maps every chunk through ChunkLower.                                    *)
(*                                                                         *)
(* Optional[T].  None is <<>> and a present value x is <<x>>.              *)
(*                                                                         *)
(* Time.  datetime.now() is the variable now, in whole seconds.            *)
(***************************************************************************)
EXTENDS Integers, Sequences, FiniteSets, TLC

VARIABLES
    cache,      \* CacheManager.cache of the live instance: key -> <<info, timestamp>>
    now,        \* the wall clock, datetime.now(), in seconds
    api_key,    \* the environment's GOOGLE_API_KEY (Optional[str])
    last,       \* record of the operation that ran last (observation)
    prev,       \* record of the operation that ran before it (observation)
    lastSet,    \* observation: key -> <<value, time>> of the latest set(key, _)
    stats,      \* observation: key -> tallies of the fetches made for that key
    count,      \* observation: fetches / runs of main made so far
    session     \* the browser session: st.session_state and the text widgets' values

vars == <<cache, now, api_key, last, prev, lastSet, stats, count, session>>

\* ------------------------------------------------------------------ bounds
MaxNow == 5400          \* the clock stops advancing here
MaxNodes == 3           \* longest list of matching <div> texts in a scraped page
MaxRuns == 4            \* runs of main (script reruns) in one behaviour
MaxCalls == 3           \* direct calls of get_game_content_async in one behaviour
MaxMainNow == 1800      \* the clock of the running app stops advancing here

\* ------------------------------------------------------- program constants
cache_duration == 3600  \* CacheManager.__init__ default
SnippetLimit == 5       \* the [:5] slice of the scraper
ArticleLimit == 5       \* the [:5] slice of the news / guide listing

\* -------------------------------------------------------------------- text
None == <<>>
Some(x) == <<x>>

\* str.lower() on the chunks that occur in the model.
ChunkLower(c) ==
    CASE c = "Installation" -> "installation"
      [] c = "Guideline" -> "guideline"
      [] c = "Review" -> "review"
      [] c = "Speedrun" -> "speedrun"
      [] c = "News" -> "news"
      [] c = "Mods" -> "mods"
      [] c = "Tips & Tricks" -> "tips & tricks"
      [] c = "Community" -> "community"
      [] c = "Custom Query" -> "custom query"
      [] c = "Detailed Info" -> "detailed info"
      [] c = "NEWS" -> "news"
      [] c = "Chess" -> "chess"
      [] c = "Go" -> "go"
      [] OTHER -> c

lower(s) == [i \in 1..Len(s) |-> ChunkLower(s[i])]

\* t in s  (substring test)
Contains(s, t) ==
    \E i \in 0..(Len(s) - Len(t)) : \A j \in 1..Len(t) : s[i + j] = t[j]

\* s.startswith(t)
StartsWith(s, t) ==
    /\ Len(t) <= Len(s)
    /\ \A j \in 1..Len(t) : s[j] = t[j]

\* lst[:n]
Take(lst, n) == IF Len(lst) <= n THEN lst ELSE SubSeq(lst, 1, n)

Range(f) == {f[x] : x \in DOMAIN f}

\* -------------------------------------------------------------- GameInfo
\* The timestamp field is left out: its default is fixed when the class is
\* defined, no caller passes one and nothing reads it (the cache keeps its own
\* time beside the GameInfo).
GameInfo(content, source, category, error) ==
    [content |-> content, source |-> source, category |-> category, error |-> error]

\* ---------------------------------------------------------- CacheManager
\* dict helpers: d[k] = v  and  del d[k]
DictPut(d, k, v) == [x \in (DOMAIN d) \cup {k} |-> IF x = k THEN v ELSE d[x]]
DictDel(d, k) == [x \in (DOMAIN d) \ {k} |-> d[x]]

CacheManager_get_inclusive(c, key, t) ==
    IF key \in DOMAIN c
    THEN IF t - c[key][2] <= cache_duration
         THEN [ret |-> Some(c[key][1]), cache |-> c]
         ELSE [ret |-> None, cache |-> DictDel(c, key)]
    ELSE [ret |-> None, cache |-> c]

\* CacheManager.get: the returned Optional[GameInfo] and the mapping afterwards.
CacheManager_get(c, key, t) ==
    IF key \in DOMAIN c
    THEN IF t - c[key][2] < cache_duration
         THEN [ret |-> Some(c[key][1]), cache |-> c]
         ELSE [ret |-> None, cache |-> DictDel(c, key)]
    ELSE [ret |-> None, cache |-> c]

CacheManager_set_keep_age(c, key, value, t) ==
    IF key \in DOMAIN c
    THEN DictPut(c, key, <<value, c[key][2]>>)
    ELSE DictPut(c, key, <<value, t>>)

\* CacheManager.set: the mapping afterwards.
CacheManager_set(c, key, value, t) == DictPut(c, key, <<value, t>>)

\* ------------------------------------------------------------ cache spec
CacheKeys == { <<"Review", "_", "Chess">>, <<"Mods", "_", "Go">> }
CacheValues ==
    { GameInfo(<< <<"Chess is fun.">> >>, Some("gemini"), Some(<<"Review">>), None),
      GameInfo(<< <<"No relevant information found.">> >>,
               Some("web_scraping"), Some(<<"News">>), None) }
TickSteps == {1799, 1800}

EntryState(c, key, t) ==
    IF key \notin DOMAIN c THEN "absent"
    ELSE IF t - c[key][2] < cache_duration THEN "fresh" ELSE "expired"

InitCommon ==
    /\ cache = <<>>
    /\ now = 0
    /\ last = [op |-> "init"]
    /\ prev = [op |-> "init"]
    /\ lastSet = <<>>
    /\ stats = <<>>
    /\ count = 0
    /\ session = [selected_category |-> None, game_name |-> <<>>, query |-> <<>>]

InitCache ==
    /\ InitCommon
    /\ api_key = Some(<<"AIza-key">>)

SetOp(key, value) ==
    /\ cache' = CacheManager_set(cache, key, value, now)
    /\ lastSet' = DictPut(lastSet, key, <<value, now>>)
    /\ last' = [op |-> "set", key |-> key, value |-> value,
                was |-> EntryState(cache, key, now)]
    /\ prev' = last
    /\ UNCHANGED <<now, api_key, stats, count, session>>

GetOp(key) ==
    LET g == CacheManager_get(cache, key, now) IN
    /\ cache' = g.cache
    /\ last' = [op |-> "get", key |-> key, ret |-> g.ret,
                was |-> EntryState(cache, key, now)]
    /\ prev' = last
    /\ UNCHANGED <<now, api_key, lastSet, stats, count, session>>

\* the wall clock moves on between two operations
Advance(d) ==
    /\ now + d <= MaxNow
    /\ now' = now + d
    /\ last' = [op |-> "advance"]
    /\ prev' = last
    /\ UNCHANGED <<cache, api_key, lastSet, stats, count, session>>

CacheSet == \E key \in CacheKeys, value \in CacheValues : SetOp(key, value)
CacheGet == \E key \in CacheKeys : GetOp(key)
Tick == \E d \in TickSteps : Advance(d)

NextCache == CacheSet \/ CacheGet \/ Tick
SpecCache == InitCache /\ [][NextCache]_vars

\* C1: set(k, v) followed immediately by get(k), with no clock advance in
\* between, returns exactly v, whatever the entry for k was before the set
\* (absent, fresh or expired).
C1_SetThenGet ==
    (last.op = "get" /\ prev.op = "set" /\ prev.key = last.key)
        => last.ret = Some(prev.value)

\* C1 witness: a set over an expired entry, read back at once.
C1_Witness ==
    /\ last.op = "get" /\ prev.op = "set" /\ prev.key = last.key
    /\ prev.was = "expired"
    /\ last.ret = Some(prev.value)

\* C2: get(k) returns the value of the latest set(k, _) exactly when k has
\* been set and less than cache_duration has passed since; otherwise it
\* returns absent and k is no longer in the mapping.  An expired entry stays
\* in the mapping only as long as it has not been read.
C2_GetFreshOnly ==
    /\ last.op = "get" =>
         LET k == last.key IN
         IF k \in DOMAIN lastSet /\ now - lastSet[k][2] < cache_duration
         THEN /\ last.ret = Some(lastSet[k][1])
              /\ k \in DOMAIN cache
              /\ cache[k] = lastSet[k]
         ELSE /\ last.ret = None
              /\ k \notin DOMAIN cache
    /\ \A k \in DOMAIN cache : k \in DOMAIN lastSet /\ cache[k] = lastSet[k]

\* C2 witness: a read at an age of exactly cache_duration finds the entry
\* still in the mapping, returns absent and removes it.
C2_Witness ==
    /\ last.op = "get"
    /\ last.was = "expired"
    /\ last.key \in DOMAIN lastSet
    /\ now - lastSet[last.key][2] = cache_duration
    /\ last.ret = None
    /\ last.key \notin DOMAIN cache

\* ------------------------------------------------------- prompt builder
CATEGORIES ==
    { <<"Installation">>, <<"Guideline">>, <<"Review">>, <<"Speedrun">>,
      <<"News">>, <<"Mods">>, <<"Tips & Tricks">>, <<"Community">> }

\* The dict literal of _generate_prompt: one f-string per enumerated category.
prompts(game_name, context) ==
    (<<"Installation">> :>
        (<<"Provide step-by-step installation instructions for ">> \o game_name
         \o <<", including system requirements and common troubleshooting tips. Context: ">>
         \o context))
    @@ (<<"Guideline">> :>
        (<<"Provide a detailed gameplay guide for ">> \o game_name
         \o <<". Focus on key areas such as getting started effectively, building characters or skills optimally, and strategic tips for progressing through critical game stages. Context: ">>
         \o context))
    @@ (<<"News">> :>
        (<<"Summarize the latest news and updates about ">> \o game_name
         \o <<", including new releases, patches, upcoming events, or developer announcements. Context: ">>
         \o context))
    @@ (<<"Review">> :>
        (<<"Create a comprehensive review of ">> \o game_name
         \o <<" covering gameplay, graphics, story, and value for money. Include both pros and cons. Context: ">>
         \o context))
    @@ (<<"Speedrun">> :>
        (<<"Explain the main speedrunning strategies and current records for ">> \o game_name
         \o <<", including key techniques and shortcuts. Context: ">>
         \o context))
    @@ (<<"Mods">> :>
        (<<"List and describe the most popular and essential mods for ">> \o game_name
         \o <<", including installation instructions. Context: ">>
         \o context))
    @@ (<<"Tips & Tricks">> :>
        (<<"Share advanced tips, secret techniques, and strategic advice for mastering ">>
         \o game_name \o <<". Context: ">> \o context))
    @@ (<<"Community">> :>
        (<<"Describe the active community spaces, events, and resources for ">> \o game_name
         \o <<" players. Context: ">> \o context))

\* the same lookup with the fallback's f prefix forgotten and "Review" missing
\* from the dict: the braces stay in the text
generate_prompt_plain_fallback(category, game_name, context) ==
    IF category \in (DOMAIN prompts(game_name, context)) \ {<<"Review">>}
    THEN prompts(game_name, context)[category]
    ELSE <<"Provide {category.lower()} information for {game_name}. Context: {context}">>

\* GamersCompass._generate_prompt: prompts.get(category, <generic template>)
generate_prompt(category, game_name, context) ==
    IF category \in DOMAIN prompts(game_name, context)
    THEN prompts(game_name, context)[category]
    ELSE <<"Provide ">> \o lower(category) \o <<" information for ">> \o game_name
         \o <<". Context: ">> \o context

\* ------------------------------------------------------- deduplication
RECURSIVE dedup_loop(_, _, _)
\* the for loop of the module-level deduplicate_snippets
dedup_loop(snippets, unique_snippets, seen) ==
    IF snippets = <<>> THEN unique_snippets
    ELSE LET snippet == Head(snippets) IN
         IF snippet \notin seen
         THEN dedup_loop(Tail(snippets), Append(unique_snippets, snippet),
                         seen \cup {snippet})
         ELSE dedup_loop(Tail(snippets), unique_snippets, seen)

\* a loop that remembers only the snippet it saw last
deduplicate_adjacent(snippets) ==
    LET keep == {i \in 1..Len(snippets) : i = 1 \/ snippets[i] # snippets[i - 1]}
        idx == CHOOSE f \in [1..Cardinality(keep) -> keep] :
                   \A i, j \in 1..Cardinality(keep) : i < j => f[i] < f[j]
    IN [i \in 1..Cardinality(keep) |-> snippets[idx[i]]]

\* module-level deduplicate_snippets: first occurrences, in input order
deduplicate_snippets(snippets) == dedup_loop(snippets, <<>>, {})

\* every list that holds each element of S once
Orderings(S) == {p \in [1..Cardinality(S) -> S] : Range(p) = S}

\* GamersCompass.deduplicate_snippets: list(set(snippets)).  The iteration
\* order of a set of str depends on the process's hash seed, so the result is
\* any ordering of the distinct snippets.
GamersCompass_deduplicate_snippets(snippets) == Orderings(Range(snippets))

\* ---------------------------------------------------------------- scraper
\* What session.get(...) gives: a response with a status and the texts of the
\* <div class="BNeawe s3v9rd AP7Wnd"> nodes of its page, or an exception e
\* (exc is str(e); str(asyncio.TimeoutError()) is the empty string).
Response(status, nodes) ==
    [kind |-> "response", status |-> status, nodes |-> nodes, exc |-> <<>>]
Failure(kind, exc) == [kind |-> kind, status |-> 0, nodes |-> <<>>, exc |-> exc]

Returned(lst) == [raised |-> FALSE, ret |-> lst]
Raised(exc) == [raised |-> TRUE, ret |-> <<>>, exc |-> exc]

\* the handler narrowed to aiohttp.ClientError: a timeout escapes
scrape_game_info_async_client_errors_only(response) ==
    IF response.kind = "timeout" THEN { Raised(response.exc) }
    ELSE IF response.kind # "response"
    THEN { Returned(<< <<"Unable to retrieve", " information: ">> \o response.exc >>) }
    ELSE IF response.status = 200
    THEN { Returned(IF Take(s, SnippetLimit) # <<>> THEN Take(s, SnippetLimit)
                    ELSE << <<"No relevant information found.">> >>)
           : s \in GamersCompass_deduplicate_snippets(response.nodes) }
    ELSE { Returned(<< <<"Unable to retrieve", " information due to server response.">> >>) }

\* GamersCompass.scrape_game_info_async: the set of outcomes of one call.
scrape_game_info_async(response) ==
    IF response.kind # "response"
    THEN { Returned(<< <<"Unable to retrieve", " information: ">> \o response.exc >>) }
    ELSE IF response.status = 200
    THEN { Returned(IF Take(s, SnippetLimit) # <<>> THEN Take(s, SnippetLimit)
                    ELSE << <<"No relevant information found.">> >>)
           : s \in GamersCompass_deduplicate_snippets(response.nodes) }
    ELSE { Returned(<< <<"Unable to retrieve", " information due to server response.">> >>) }

\* --------------------------------------------- specification: the functions
SnippetPool ==
    { <<"Chess is a two-player strategy game">>, <<"Chess has 64 squares">>, <<"">> }

RECURSIVE ListsUpTo(_, _)
ListsUpTo(S, n) ==
    IF n = 0 THEN { <<>> }
    ELSE ListsUpTo(S, n - 1)
         \cup { Append(l, x) : l \in {m \in ListsUpTo(S, n - 1) : Len(m) = n - 1}, x \in S }

LongPage == << <<"s1">>, <<"s2">>, <<"s3">>, <<"s2">>, <<"s4">>, <<"s5">>, <<"s6">> >>
NodeLists == ListsUpTo(SnippetPool, MaxNodes) \cup { LongPage }

Responses ==
    { Response(200, n) : n \in NodeLists }
    \cup { Response(s, <<>>) : s \in {404, 429, 500} }
    \cup { Failure("timeout", <<>>),
           Failure("client_error", <<"Cannot connect to host www.google.com:443">>) }

PromptCategories ==
    CATEGORIES \cup { <<"Custom Query">>, <<"Detailed Info">>, <<"review">>, <<"NEWS">> }
GameNames == { <<"Chess">>, <<"Go">>, <<"Baldur's Gate", " 3">> }
Contexts ==
    SnippetPool
    \cup { <<"No relevant information found.">>,
           <<"Unable to retrieve", " information due to server response.">> }

InitPure ==
    /\ cache = <<>>
    /\ now = 0
    /\ api_key = Some(<<"AIza-key">>)
    /\ prev = [op |-> "init"]
    /\ lastSet = <<>>
    /\ stats = <<>>
    /\ count = 0
    /\ session = [selected_category |-> None, game_name |-> <<>>, query |-> <<>>]
    /\ last \in
         { [op |-> "prompt_args", category |-> c, game_name |-> g, context |-> x]
             : c \in PromptCategories, g \in GameNames, x \in Contexts }
         \cup { [op |-> "dedup_args", snippets |-> n] : n \in NodeLists }
         \cup { [op |-> "scrape_args", response |-> r] : r \in Responses }

GeneratePrompt ==
    /\ last.op = "prompt_args"
    /\ last' = [op |-> "prompt", category |-> last.category,
                game_name |-> last.game_name, context |-> last.context,
                ret |-> generate_prompt(last.category, last.game_name, last.context)]
    /\ prev' = last
    /\ UNCHANGED <<cache, now, api_key, lastSet, stats, count, session>>

Deduplicate ==
    /\ last.op = "dedup_args"
    /\ \E m \in GamersCompass_deduplicate_snippets(last.snippets) :
         last' = [op |-> "dedup", snippets |-> last.snippets,
                  fn |-> deduplicate_snippets(last.snippets), method |-> m]
    /\ prev' = last
    /\ UNCHANGED <<cache, now, api_key, lastSet, stats, count, session>>

Scrape ==
    /\ last.op = "scrape_args"
    /\ \E o \in scrape_game_info_async(last.response) :
         last' = [op |-> "scrape", response |-> last.response,
                  raised |-> o.raised, ret |-> o.ret]
    /\ prev' = last
    /\ UNCHANGED <<cache, now, api_key, lastSet, stats, count, session>>

NextPure == GeneratePrompt \/ Deduplicate \/ Scrape
SpecPure == InitPure /\ [][NextPure]_vars

SENTINEL_PREFIX == <<"Unable to retrieve">>

\* C4: scrape_game_info_async never raises; on a non-200 response, a timeout
\* or any other network failure it returns exactly one string, which begins
\* with "Unable to retrieve"; on every path the returned list is non-empty.
C4_ScrapeNeverRaises ==
    last.op = "scrape" =>
        /\ ~last.raised
        /\ Len(last.ret) >= 1
        /\ (last.response.kind # "response" \/ last.response.status # 200)
             => /\ Len(last.ret) = 1
                /\ StartsWith(last.ret[1], SENTINEL_PREFIX)

\* C4 witness: a timeout answered by the one-string sentinel.
C4_Witness ==
    /\ last.op = "scrape"
    /\ last.response.kind = "timeout"
    /\ ~last.raised
    /\ Len(last.ret) = 1
    /\ StartsWith(last.ret[1], SENTINEL_PREFIX)

\* C8 as stated: for an enumerated category the prompt contains the game name
\* and the context verbatim; for any other category it contains the category
\* name, the game name and the context.
C8_PromptContainsCategoryName ==
    last.op = "prompt" =>
        /\ Contains(last.ret, last.game_name)
        /\ Contains(last.ret, last.context)
        /\ last.category \notin CATEGORIES => Contains(last.ret, last.category)

\* C8 amended: for an enumerated category the prompt contains the game name
\* and the context verbatim; for any other category it is the generic
\* template, which contains the category name converted to lower case, the
\* game name and the context.
C8_PromptContainsLoweredCategory ==
    last.op = "prompt" =>
        /\ Contains(last.ret, last.game_name)
        /\ Contains(last.ret, last.context)
        /\ last.category \notin CATEGORIES =>
             /\ StartsWith(last.ret, <<"Provide ">>)
             /\ Contains(last.ret, lower(last.category))

\* C8 witness: the generic template for "Custom Query", with the category in
\* lower case only.
C8_Witness ==
    /\ last.op = "prompt"
    /\ last.category = <<"Custom Query">>
    /\ Contains(last.ret, <<"custom query">>)
    /\ ~Contains(last.ret, <<"Custom Query">>)
    /\ Contains(last.ret, last.game_name)
    /\ Contains(last.ret, last.context)

LLMs == {"echo", "raise", "no_response"}
generate_content(llm, prompt) ==
    CASE llm = "echo" -> [raised |-> FALSE, response |-> Some([text |-> prompt])]
      [] llm = "no_response" -> [raised |-> FALSE, response |-> None]
      [] OTHER -> [raised |-> TRUE, response |-> None,
                   exc |-> <<"429 Resource has been exhausted">>]

\* `not api_key`
Falsy(key) == key = None \/ key[1] = <<>>

\* GamersCompass._setup_api_key: os.getenv("GOOGLE_API_KEY") or None
setup_api_key(env) == IF Falsy(env) THEN None ELSE env

\* the key is the game name alone
cache_key_without_category(category, game_name) == game_name

\* f"{category}_{game_name}"
cache_key(category, game_name) == category \o <<"_">> \o game_name

\* GameInfo(content=[response.text] if response else ['No content available'],
\*          category=category, source="gemini"), or the exception of the call
gemini_info(category, prompt, r) ==
    IF r.raised
    THEN [raised |-> TRUE, exc |-> r.exc, llms |-> 1, prompt |-> Some(prompt)]
    ELSE [raised |-> FALSE, llms |-> 1, prompt |-> Some(prompt),
          result |-> GameInfo(IF r.response # None THEN << r.response[1].text >>
                              ELSE << <<"No content available">> >>,
                              Some("gemini"), Some(category), None)]

\* the else branch of the try block: the model is called with the prompt.
\* key is self.api_key: generation_config exists only when it is set.
ask_model(key, category, prompt, llm) ==
    IF Falsy(key)
    THEN [raised |-> TRUE, llms |-> 0, prompt |-> Some(prompt),
          exc |-> <<"'GamersCompass' object has no attribute 'generation_config'">>]
    ELSE gemini_info(category, prompt, generate_content(llm, prompt))

\* The try block of get_game_content_async up to the cache write: the
\* GameInfo it builds, or the exception it raises.  scraped is the outcome of
\* the awaited scrape_game_info_async.
try_body(key, category, game_name, scraped, llm) ==
    IF scraped.raised
    THEN [raised |-> TRUE, exc |-> scraped.exc, llms |-> 0, prompt |-> None]
    ELSE IF lower(category) \in { <<"guideline">>, <<"news">> }
    THEN [raised |-> FALSE, llms |-> 0, prompt |-> None,
          result |-> GameInfo(scraped.ret, Some("web_scraping"), Some(category), None)]
    ELSE ask_model(key, category,
                   generate_prompt(category, game_name, scraped.ret[1]), llm)

Hit(info, c) ==
    [result |-> info, cache |-> c, hit |-> TRUE, failed |-> FALSE,
     scrapes |-> 0, llms |-> 0, prompt |-> None]
Miss(info, c, failed, b) ==
    [result |-> info, cache |-> c, hit |-> FALSE, failed |-> failed,
     scrapes |-> 1, llms |-> b.llms, prompt |-> b.prompt]
ErrorInfo(exc) == GameInfo(<<>>, None, None, Some(<<"Error generating content: ">> \o exc))

\* the error GameInfo is stored like a result
after_lookup_caches_errors(g, b, k, t) ==
    IF g.ret # None THEN Hit(g.ret[1], g.cache)
    ELSE IF b.raised
    THEN Miss(ErrorInfo(b.exc), CacheManager_set(g.cache, k, ErrorInfo(b.exc), t), TRUE, b)
    ELSE Miss(b.result, CacheManager_set(g.cache, k, b.result, t), FALSE, b)

\* a failed LLM call is made once more before giving up
after_lookup_retries(g, b, k, t) ==
    IF g.ret # None THEN Hit(g.ret[1], g.cache)
    ELSE IF b.raised
    THEN Miss(ErrorInfo(b.exc), g.cache, TRUE, [b EXCEPT !.llms = 2 * b.llms])
    ELSE Miss(b.result, CacheManager_set(g.cache, k, b.result, t), FALSE, b)

\* get_game_content_async after cache_manager.get answered g: the cached
\* GameInfo, or the outcome b of the try block, stored under k unless it raised
after_lookup(g, b, k, t) ==
    IF g.ret # None THEN Hit(g.ret[1], g.cache)
    ELSE IF b.raised THEN Miss(ErrorInfo(b.exc), g.cache, TRUE, b)
    ELSE Miss(b.result, CacheManager_set(g.cache, k, b.result, t), FALSE, b)

\* GamersCompass.get_game_content_async on an instance whose cache is c, at
\* time t: the GameInfo returned, the cache afterwards and the outbound calls
\* made (scrapes: HTTP GETs of the scraper, llms: generate_content calls).
get_game_content_async(c, key, category, game_name, t, scraped, llm) ==
    after_lookup(CacheManager_get(c, cache_key(category, game_name), t),
                 try_body(key, category, game_name, scraped, llm),
                 cache_key(category, game_name), t)

\* ------------------------------------ specification: one GamersCompass object
FetchCategories == { <<"Review">>, <<"News">> }
FetchGames == { <<"Chess">> }
FetchResponses ==
    { Response(200, << <<"Chess is a two-player strategy game">>, <<"Chess has 64 squares">> >>),
      Response(200, <<>>),
      Response(500, <<>>),
      Failure("timeout", <<>>) }

\* tallies of the fetches made for each key: how many, the outbound calls they
\* made, when the first one ran, how many failed and whether the latest did
RECURSIVE TalliedAll(_, _)
TalliedAll(st, fetches) ==
    IF fetches = <<>> THEN st
    ELSE LET k == Head(fetches).key
             f == Head(fetches).call
             old == IF k \in DOMAIN st THEN st[k]
                    ELSE [calls |-> 0, scrapes |-> 0, llms |-> 0, first |-> now,
                          failures |-> 0, failed |-> FALSE]
         IN TalliedAll(DictPut(st, k,
                [calls |-> old.calls + 1, scrapes |-> old.scrapes + f.scrapes,
                 llms |-> old.llms + f.llms, first |-> old.first,
                 failures |-> old.failures + (IF f.failed THEN 1 ELSE 0),
                 failed |-> f.failed]), Tail(fetches))

Tally(k) ==
    IF k \in DOMAIN stats THEN stats[k]
    ELSE [calls |-> 0, scrapes |-> 0, llms |-> 0, first |-> now, failures |-> 0,
          failed |-> FALSE]
Tallied(k, f) == TalliedAll(stats, << [key |-> k, call |-> f] >>)

InitFetch ==
    /\ InitCommon
    /\ api_key \in { None, Some(<<"AIza-key">>) }

Fetch(category, game_name, response, scraped, llm) ==
    /\ count < MaxCalls
    /\ \E f \in { get_game_content_async(cache, setup_api_key(api_key), category,
                                          game_name, now, scraped, llm) } :
        LET k == cache_key(category, game_name) IN
        /\ count' = count + 1
        /\ cache' = f.cache
        /\ stats' = Tallied(k, f)
        /\ last' = [op |-> "fetch", category |-> category, game_name |-> game_name,
                    key |-> k, at |-> now, call |-> f, before |-> cache,
                    was |-> EntryState(cache, k, now),
                    after_failure |-> Tally(k).failed,
                    response |-> IF f.hit THEN None ELSE Some(response),
                    scraped |-> IF f.hit THEN None ELSE Some(scraped),
                    llm |-> IF f.llms = 0 THEN None ELSE Some(llm)]
        /\ UNCHANGED <<now, api_key, prev, lastSet, session>>

GetGameContent ==
    \E category \in FetchCategories, game_name \in FetchGames,
       response \in FetchResponses, llm \in LLMs :
        \E scraped \in scrape_game_info_async(response) :
            Fetch(category, game_name, response, scraped, llm)

Clock ==
    \E d \in TickSteps :
        /\ now + d <= MaxNow
        /\ now' = now + d
        /\ UNCHANGED <<cache, api_key, last, prev, lastSet, stats, count, session>>

NextFetch == GetGameContent \/ Clock
SpecFetch == InitFetch /\ [][NextFetch]_vars

LLMPath(category) == lower(category) \notin { <<"guideline">>, <<"news">> }
ReturnedText(f) == f.llms = 1 /\ ~f.failed /\ f.result.content # << <<"No content available">> >>

\* C6: for a category on the LLM path, when the scrape returns a snippet and
\* the LLM returns text, the GameInfo returned has source "gemini", the
\* requested category and, as its content, the LLM's text for the prompt built
\* over the first snippet; that GameInfo is stored under category + "_" + game.
C6_GeminiResultCached ==
    (last.op = "fetch" /\ ~last.call.hit /\ LLMPath(last.category)
       /\ ReturnedText(last.call)) =>
        LET f == last.call
            prompt == generate_prompt(last.category, last.game_name, last.scraped[1].ret[1])
        IN  /\ f.result.source = Some("gemini")
            /\ f.result.category = Some(last.category)
            /\ f.result.error = None
            /\ f.prompt = Some(prompt)
            /\ f.result.content = << generate_content(last.llm[1], prompt).response[1].text >>
            /\ last.category \o <<"_">> \o last.game_name \in DOMAIN cache
            /\ cache[last.category \o <<"_">> \o last.game_name] = <<f.result, last.at>>

\* C6 witness: "Review" / "Chess" with the snippet "Chess is a two-player
\* strategy game" first and an echoing LLM: the content holds the prompt and
\* the result sits under "Review_Chess".
C6_Witness ==
    /\ last.op = "fetch" /\ ~last.call.hit
    /\ last.category = <<"Review">> /\ last.game_name = <<"Chess">>
    /\ last.scraped[1].ret[1] = <<"Chess is a two-player strategy game">>
    /\ last.call.result.source = Some("gemini")
    /\ Contains(last.call.result.content[1], <<"Chess is a two-player strategy game">>)
    /\ Contains(last.call.result.content[1], <<"Create a comprehensive review of ">>)
    /\ <<"Review", "_", "Chess">> \in DOMAIN cache
    /\ cache[<<"Review", "_", "Chess">>][1] = last.call.result

SentinelScrape(scraped) == Len(scraped.ret) = 1 /\ StartsWith(scraped.ret[1], SENTINEL_PREFIX)

\* C10 as stated: a fetch that fails after the cache miss leaves the cache
\* unchanged.
C10_FailureLeavesCacheUnchanged ==
    (last.op = "fetch" /\ last.call.failed) => cache = last.before

\* C10 amended: a fetch that fails after the cache miss makes no second
\* attempt, returns a GameInfo with empty content and a non-empty error
\* message and stores nothing: the cache is as the initial lookup left it,
\* which is unchanged except that an expired entry for the key has been
\* evicted.  A later fetch for the same key therefore misses and scrapes
\* again.  A failed scrape alone does not fail the fetch: its sentinel is the
\* context of the prompt and the LLM is still called.
C10_FailureNotCachedNotRetried ==
    last.op = "fetch" =>
        LET f == last.call IN
        /\ f.failed =>
             /\ f.result.content = <<>>
             /\ f.result.error # None /\ f.result.error[1] # <<>>
             /\ f.scrapes = 1 /\ f.llms <= 1
             /\ last.key \notin DOMAIN cache
             /\ cache = (IF last.was = "expired" THEN DictDel(last.before, last.key)
                         ELSE last.before)
        /\ last.after_failure => (~f.hit /\ f.scrapes = 1)
        /\ (~f.hit /\ SentinelScrape(last.scraped[1]) /\ LLMPath(last.category)
              /\ ~Falsy(api_key)) =>
             /\ f.llms = 1
             /\ f.prompt = Some(generate_prompt(last.category, last.game_name,
                                                last.scraped[1].ret[1]))
             /\ f.failed <=> generate_content(last.llm[1], f.prompt[1]).raised

\* C10 witness: the LLM raises, and the next fetch for the same key goes out
\* again.
C10_Witness ==
    /\ last.op = "fetch"
    /\ last.after_failure
    /\ ~last.call.hit /\ last.call.scrapes = 1 /\ last.call.llms = 1
    /\ stats[last.key].failures >= 1
    /\ stats[last.key].llms >= 2

\* ------------------------------------------------------ news / guide site
\* str.strip() of a text whose whitespace runs are chunks of their own
RECURSIVE LStrip(_)
LStrip(s) == IF s # <<>> /\ Head(s) = " " THEN LStrip(Tail(s)) ELSE s
RECURSIVE RStrip(_)
RStrip(s) == IF s # <<>> /\ s[Len(s)] = " " THEN RStrip(SubSeq(s, 1, Len(s) - 1)) ELSE s
strip(s) == RStrip(LStrip(s))

RECURSIVE Headlines(_)
\* the loop over the <article> nodes: an article is its <h3> text, or None
Headlines(articles) ==
    IF articles = <<>> THEN <<>>
    ELSE IF Head(articles) # None
         THEN << strip(Head(articles)[1]) >> \o Headlines(Tail(articles))
         ELSE Headlines(Tail(articles))

\* GamersCompass.scrape_news: no try block, so an exception of the GET escapes
scrape_news(response) ==
    IF response.kind # "response" THEN [raised |-> TRUE, is_str |-> FALSE, ret |-> <<>>]
    ELSE IF response.status = 200
    THEN [raised |-> FALSE, is_str |-> FALSE, ret |-> Headlines(response.nodes)]
    ELSE [raised |-> FALSE, is_str |-> TRUE, ret |-> <<"Incorrect Game Title!">>]

\* GamersCompass.scrape_guides: the same code against the same URL
scrape_guides(response) ==
    IF response.kind # "response" THEN [raised |-> TRUE, is_str |-> FALSE, ret |-> <<>>]
    ELSE IF response.status = 200
    THEN [raised |-> FALSE, is_str |-> FALSE, ret |-> Headlines(response.nodes)]
    ELSE [raised |-> FALSE, is_str |-> TRUE, ret |-> <<"Incorrect Game Title!">>]

\* ---------------------------------------------------------------- rendering
\* What a render step did: the instance's cache afterwards, the GETs to the
\* news / guide site, the fetches (key and outcome, in order), whether an
\* exception escaped and whether game content was put on the page.
Rendered(c, gets, fetches, crashed, content) ==
    [cache |-> c, gets |-> gets, fetches |-> fetches, crashed |-> crashed,
     content |-> content]

\* a fetch f for key k, rendered: content is shown unless it failed or is empty
Fetched(k, f, gets) ==
    Rendered(f.cache, gets, << [key |-> k, call |-> f] >>, FALSE,
             f.result.error = None /\ f.result.content # <<>>)

\* the loop over the listed entries: the one whose "Get More Details" button
\* is pressed, if any, is fetched
list_entries(c, key, shown, t, ui, net) ==
    IF ui.pressed \in 1..Len(shown)
    THEN Fetched(cache_key(<<"Detailed Info">>, shown[ui.pressed]),
                 get_game_content_async(c, key, <<"Detailed Info">>, shown[ui.pressed], t,
                                        net.scraped1, net.llm1),
                 1)
    ELSE Rendered(c, 1, <<>>, FALSE, shown # <<>>)

\* the listing branch of render_game_content (news and guideline alike): the
\* warning for a str, else at most ArticleLimit entries
render_listing(c, key, listing, t, ui, net) ==
    IF listing.raised THEN Rendered(c, 1, <<>>, TRUE, FALSE)
    ELSE IF listing.is_str THEN Rendered(c, 1, <<>>, FALSE, FALSE)
    ELSE list_entries(c, key, Take(listing.ret, ArticleLimit), t, ui, net)

\* GamersCompass.render_game_content
render_game_content(c, key, game_name, category, t, ui, net) ==
    IF lower(category) = <<"news">>
    THEN render_listing(c, key, scrape_news(net.page), t, ui, net)
    ELSE IF lower(category) = <<"guideline">>
    THEN render_listing(c, key, scrape_guides(net.page), t, ui, net)
    ELSE Fetched(cache_key(category, game_name),
                 get_game_content_async(c, key, category, game_name, t,
                                        net.scraped1, net.llm1),
                 0)

\* custom_prompt = f"{user_input} for the game {game_name}"
custom_prompt(user_input, game_name) == user_input \o <<" for the game ">> \o game_name

\* GamersCompass.render_custom_query_section
render_custom_query_section(c, key, game_name, t, ui, net) ==
    IF ui.user_input # <<>>
    THEN Fetched(cache_key(<<"Custom Query">>, custom_prompt(ui.user_input, game_name)),
                 get_game_content_async(c, key, <<"Custom Query">>,
                                        custom_prompt(ui.user_input, game_name), t,
                                        net.scraped2, net.llm2),
                 0)
    ELSE Rendered(c, 0, <<>>, FALSE, FALSE)

\* the check of the key left out
main_stops_never(key) == FALSE

\* `if not app.api_key: st.stop()`
main_stops(key) == Falsy(key)

Page(halted, buttons, r) ==
    [halted |-> halted, buttons |-> buttons, content |-> r.content,
     crashed |-> r.crashed, cache |-> r.cache, gets |-> r.gets, fetches |-> r.fetches]

\* the two sections of the page: what a did, then what b did
Both(a, b) ==
    Rendered(b.cache, a.gets + b.gets, a.fetches \o b.fetches, FALSE,
             a.content \/ b.content)

\* `await app.render_game_content(...)` gave a; an exception ends the run,
\* else `await app.render_custom_query_section(game_name)` follows
then_custom_query(a, key, t, ui, net) ==
    IF a.crashed THEN a
    ELSE Both(a, render_custom_query_section(a.cache, key, ui.game_name, t, ui, net))

\* main with app = GamersCompass() constructed: app.api_key is key and
\* app.cache_manager.cache is fresh
main_with(key, fresh, t, ui, net) ==
    IF main_stops(key)
    THEN Page(TRUE, FALSE, Rendered(fresh, 0, <<>>, FALSE, FALSE))
    ELSE IF ui.selected_category = None \/ ui.game_name = <<>>
    THEN Page(FALSE, TRUE, Rendered(fresh, 0, <<>>, FALSE, FALSE))
    ELSE Page(FALSE, TRUE,
              then_custom_query(render_game_content(fresh, key, ui.game_name,
                                                    ui.selected_category[1], t, ui, net),
                                key, t, ui, net))

\* One run of main (one execution of the script): a new GamersCompass, and with
\* it a new, empty CacheManager, then the page.  ui is what the widgets return
\* in this run, net what the network answers.
main(env, t, ui, net) == main_with(setup_api_key(env), <<>>, t, ui, net)

\* ------------------------------------------ specification: the running app
MainCategories == { <<"Review">>, <<"News">>, <<"Guideline">> }
MainGames == { <<"Chess">> }
Queries == { <<"How to castle?">> }
Suggestions == { <<"How to beat the final boss?">> }
Pages ==
    { Response(200, << Some(<<" ", "Chess patch 1.2 released", " ">>), None,
                       Some(<<"Chess world cup starts">>) >>),
      Response(200, <<>>),
      Response(404, <<>>),
      Failure("client_error", <<"Cannot connect to host sea.ign.com:443">>) }
MainResponses ==
    { Response(200, << <<"Chess is a two-player strategy game">> >>),
      Failure("timeout", <<>>) }
MainLLMs == {"echo", "raise"}

InitMain ==
    /\ InitCommon
    /\ api_key \in { None, Some(<<>>), Some(<<"AIza-key">>) }

RECURSIVE Sum(_, _)
Sum(fetches, field) ==
    IF fetches = <<>> THEN 0
    ELSE (IF field = "scrapes" THEN Head(fetches).call.scrapes ELSE Head(fetches).call.llms)
         + Sum(Tail(fetches), field)

\* Which answers of the network a run can read at all: the others are fixed,
\* so that a run is not counted once per answer nobody asked for.
ContentAsked(s1) ==
    ~Falsy(api_key) /\ s1.selected_category # None /\ s1.game_name # <<>>
ListingRead(s1) ==
    /\ ContentAsked(s1)
    /\ lower(s1.selected_category[1]) \in { <<"news">>, <<"guideline">> }
FirstFetchMade(s1, pressed) ==
    ContentAsked(s1) /\ (ListingRead(s1) => pressed > 0)
SecondFetchMade(s1, user_input) == ContentAsked(s1) /\ user_input # <<>>

\* Streamlit reruns the script once per widget event; a button is True only in
\* the run its click started, a text widget keeps its value.
Run(event, s1, user_input, pressed) ==
    /\ count < MaxRuns
    /\ \E page \in (IF ListingRead(s1) THEN Pages ELSE {Response(200, <<>>)}),
       r1 \in (IF FirstFetchMade(s1, pressed) THEN MainResponses ELSE {Failure("timeout", <<>>)}),
       r2 \in (IF SecondFetchMade(s1, user_input) THEN MainResponses
               ELSE {Failure("timeout", <<>>)}),
       llm1 \in (IF FirstFetchMade(s1, pressed) THEN MainLLMs ELSE {"raise"}),
       llm2 \in (IF SecondFetchMade(s1, user_input) THEN MainLLMs ELSE {"raise"}) :
      \E scraped1 \in scrape_game_info_async(r1), scraped2 \in scrape_game_info_async(r2) :
        LET ui == [selected_category |-> s1.selected_category, game_name |-> s1.game_name,
                   user_input |-> user_input, pressed |-> pressed]
            net == [page |-> page, scraped1 |-> scraped1, llm1 |-> llm1,
                    scraped2 |-> scraped2, llm2 |-> llm2]
        IN  \E m \in { main(api_key, now, ui, net) } :
            /\ count' = count + 1
            /\ session' = s1
            /\ cache' = m.cache
            /\ stats' = TalliedAll(stats, m.fetches)
            /\ last' = [op |-> "main", event |-> event, at |-> now,
                        key_missing |-> Falsy(api_key),
                        halted |-> m.halted, buttons |-> m.buttons, content |-> m.content,
                        crashed |-> m.crashed, gets |-> m.gets,
                        scrapes |-> Sum(m.fetches, "scrapes"),
                        llms |-> Sum(m.fetches, "llms"),
                        keys |-> [i \in 1..Len(m.fetches) |-> m.fetches[i].key],
                        category |-> s1.selected_category, user_input |-> user_input,
                        pressed |-> pressed]
            /\ UNCHANGED <<now, api_key, prev, lastSet>>

\* widgets that the page of the previous run offered
ButtonsShown == ~Falsy(api_key)
GameInputShown == ButtonsShown /\ session.selected_category # None
QueryShown ==
    /\ GameInputShown /\ session.game_name # <<>>
    /\ ~(last.op = "main" /\ last.crashed)
DetailsShown ==
    /\ GameInputShown /\ session.game_name # <<>>
    /\ lower(session.selected_category[1]) \in { <<"news">>, <<"guideline">> }

MainClock ==
    \E d \in {cache_duration \div 2} :
        /\ now + d <= MaxMainNow
        /\ now' = now + d
        /\ UNCHANGED <<cache, api_key, last, prev, lastSet, stats, count, session>>

\* first load, a feedback button, "Try Again", a browser refresh
Reload == Run("reload", session, session.query, 0)
ClickCategory ==
    \E c \in MainCategories :
        ButtonsShown /\ Run("category", [session EXCEPT !.selected_category = Some(c)],
                            session.query, 0)
EnterGame ==
    \E g \in MainGames :
        GameInputShown /\ Run("game", [session EXCEPT !.game_name = g], session.query, 0)
EnterQuery ==
    \E q \in Queries :
        QueryShown /\ Run("query", [session EXCEPT !.query = q], q, 0)
ClickSuggestion ==
    \E q \in Suggestions : QueryShown /\ Run("suggest", session, q, 0)
ClickDetails ==
    \E i \in 1..ArticleLimit : DetailsShown /\ Run("details", session, session.query, i)

NextMain ==
    Reload \/ ClickCategory \/ EnterGame \/ EnterQuery \/ ClickSuggestion
        \/ ClickDetails \/ MainClock
SpecMain == InitMain /\ [][NextMain]_vars

\* C3 as stated, for fetches none of which failed: two fetches for the same
\* (category, game) within the expiry window make one scrape and one LLM call
\* between them, the second being served from the cache.
C3_SecondCallServedFromCache ==
    \A k \in DOMAIN stats :
        (stats[k].calls = 2 /\ stats[k].failures = 0
           /\ now - stats[k].first < cache_duration)
            => (stats[k].scrapes = 1 /\ stats[k].llms = 1)

\* C5: with GOOGLE_API_KEY missing (unset or empty) every run of main halts
\* before any network call: no GET, no scrape, no LLM call, and neither the
\* category buttons nor game content are rendered.
C5_MissingKeyHalts ==
    /\ (last.op = "main" /\ last.key_missing) =>
         /\ last.halted
         /\ last.gets = 0 /\ last.scrapes = 0 /\ last.llms = 0
         /\ last.keys = <<>>
         /\ ~last.buttons /\ ~last.content
    /\ Falsy(api_key) => (stats = <<>> /\ cache = <<>>)

\* C5 witness: a second run with an empty GOOGLE_API_KEY, halted like the first.
C5_Witness ==
    /\ last.op = "main" /\ last.key_missing /\ last.halted
    /\ api_key = Some(<<>>)
    /\ count = 2
    /\ last.gets + last.scrapes + last.llms = 0

\* C7 as stated: one run of main makes at most one outbound HTTP call to the
\* scraper and at most one LLM call.
C7_OneCallPerRun ==
    last.op = "main" => (last.gets + last.scrapes <= 1 /\ last.llms <= 1)

\* C7 amended: one run of main makes at most three outbound HTTP GETs, at most
\* one to the news / guide site and at most one search scrape for each of its
\* at most two fetches (the category content or the pressed "Get More
\* Details" entry, and the custom query), and at most two LLM calls, one per
\* fetch; a run without a custom query and without a "Get More Details" press
\* makes at most one HTTP call and at most one LLM call.
C7_CallsPerRunBounded ==
    last.op = "main" =>
        /\ last.gets <= 1
        /\ Len(last.keys) <= 2
        /\ last.scrapes <= Len(last.keys)
        /\ last.llms <= last.scrapes
        /\ last.gets = 1 =>
             lower(last.category[1]) \in { <<"news">>, <<"guideline">> }
        /\ (last.user_input = <<>> /\ last.pressed = 0) =>
             (last.gets + last.scrapes <= 1 /\ last.llms <= 1)

\* C7 witness: News with "Get More Details" pressed and a custom query
\* entered: three GETs and two LLM calls in one run.
C7_Witness ==
    /\ last.op = "main"
    /\ last.category = Some(<<"News">>)
    /\ last.pressed > 0 /\ last.user_input # <<>>
    /\ last.gets = 1 /\ last.scrapes = 2 /\ last.llms = 2

====
